---------------------------- MODULE Spec2Model ----------------------------
(***************************************************************************)
(* Bond pricer (src/bond-pricer.py): price, yield to maturity, duration,    *)
(* convexity and accrued interest of a fixed-coupon bond.                    *)
(*                                                                           *)
(* The program computes in Python floats, i.e. IEEE-754 binary64 with        *)
(* round-to-nearest-even.  The model keeps that arithmetic: a float is a     *)
(* sign, a 53-bit mantissa and an exponent, and every operation of the       *)
(* source is one correctly rounded operation here.  Mantissas do not fit     *)
(* TLC's integers, so they are natural numbers in limbs (section 1).         *)
(* Exponent range (overflow, subnormals) is not modelled: the inputs of      *)
(* the model stay far inside it.                                             *)
(***************************************************************************)
EXTENDS Integers, Sequences, FiniteSets

(***************************************************************************)
(* 1. Natural numbers in limbs: little-endian sequences of digits in        *)
(*    0..Base-1 with no leading (last) zero digit; zero is <<>>.            *)
(***************************************************************************)
LimbBits == 5 * 3
Base == 2 ^ LimbBits

RECURSIVE BTrim(_)
BTrim(a) ==
    IF a = <<>> THEN a
    ELSE IF a[Len(a)] = 0 THEN BTrim(SubSeq(a, 1, Len(a) - 1)) ELSE a

RECURSIVE BAddC(_, _, _)
BAddC(a, b, c) ==
    IF a = <<>> /\ b = <<>> THEN (IF c = 0 THEN <<>> ELSE <<c>>)
    ELSE IF b = <<>> /\ c = 0 THEN a
    ELSE IF a = <<>> /\ c = 0 THEN b
    ELSE LET x == IF a = <<>> THEN 0 ELSE Head(a)
             y == IF b = <<>> THEN 0 ELSE Head(b)
             s == x + y + c
         IN  <<s % Base>> \o BAddC(IF a = <<>> THEN a ELSE Tail(a),
                                   IF b = <<>> THEN b ELSE Tail(b),
                                   s \div Base)

BAdd(a, b) == BAddC(a, b, 0)

RECURSIVE BSubB(_, _, _)
BSubB(a, b, br) ==
    IF a = <<>> THEN <<>>
    ELSE IF b = <<>> /\ br = 0 THEN a
    ELSE LET y == IF b = <<>> THEN 0 ELSE Head(b)
             d == Head(a) - y - br
         IN  <<IF d < 0 THEN d + Base ELSE d>>
                 \o BSubB(Tail(a), IF b = <<>> THEN b ELSE Tail(b),
                          IF d < 0 THEN 1 ELSE 0)

\* a - b for a >= b
BSub(a, b) == BTrim(BSubB(a, b, 0))

RECURSIVE BCmpAt(_, _, _)
BCmpAt(a, b, i) ==
    IF i = 0 THEN 0
    ELSE IF a[i] < b[i] THEN -1
    ELSE IF a[i] > b[i] THEN 1
    ELSE BCmpAt(a, b, i - 1)

\* -1, 0, 1 as a < b, a = b, a > b
BCmp(a, b) ==
    IF Len(a) < Len(b) THEN -1
    ELSE IF Len(a) > Len(b) THEN 1
    ELSE BCmpAt(a, b, Len(a))

RECURSIVE BMulLimbC(_, _, _)
BMulLimbC(a, d, c) ==
    IF a = <<>> THEN (IF c = 0 THEN <<>> ELSE <<c>>)
    ELSE LET p == Head(a) * d + c
         IN  <<p % Base>> \o BMulLimbC(Tail(a), d, p \div Base)

RECURSIVE BMul(_, _)
BMul(a, b) ==
    IF a = <<>> \/ b = <<>> THEN <<>>
    ELSE IF Len(b) = 1 THEN BMulLimbC(a, b[1], 0)
    ELSE BAdd(BMulLimbC(a, Head(b), 0), <<0>> \o BMul(a, Tail(b)))

RECURSIVE BPow(_, _)
BPow(a, n) == IF n = 0 THEN <<1>> ELSE BMul(BPow(a, n - 1), a)

\* a * 2^n
BShl(a, n) ==
    IF a = <<>> THEN a
    ELSE [i \in 1..(n \div LimbBits) |-> 0] \o BMulLimbC(a, 2 ^ (n % LimbBits), 0)

\* floor(a / 2^n)
BShr(a, n) ==
    LET w == n \div LimbBits
        k == n % LimbBits
    IN  IF Len(a) <= w THEN <<>>
        ELSE LET t == SubSeq(a, w + 1, Len(a))
             IN  BTrim([i \in 1..Len(t) |->
                          (t[i] \div 2 ^ k)
                          + ((IF i < Len(t) THEN t[i + 1] ELSE 0) % 2 ^ k)
                            * 2 ^ (LimbBits - k)])

\* bit n of a (bit 0 is the lowest)
BBit(a, n) ==
    LET w == n \div LimbBits + 1
    IN  IF w > Len(a) THEN 0 ELSE (a[w] \div 2 ^ (n % LimbBits)) % 2

\* a mod 2^n # 0
BLowNonzero(a, n) ==
    LET w == n \div LimbBits
    IN  \/ \E i \in 1..w : i <= Len(a) /\ a[i] # 0
        \/ w < Len(a) /\ a[w + 1] % 2 ^ (n % LimbBits) # 0

BBitLen(a) ==
    IF a = <<>> THEN 0
    ELSE LimbBits * (Len(a) - 1)
         + (CHOOSE k \in 1..LimbBits : 2 ^ (k - 1) <= a[Len(a)] /\ a[Len(a)] < 2 ^ k)

RECURSIVE BFromNat(_)
BFromNat(n) == IF n = 0 THEN <<>> ELSE <<n % Base>> \o BFromNat(n \div Base)

\* the value of a number of at most two limbs
BToNat(a) ==
    IF a = <<>> THEN 0 ELSE IF Len(a) = 1 THEN a[1] ELSE a[1] + Base * a[2]

\* The quotient digit floor(r / d) for r < d * Base, where the last limb of d
\* is at least Base / 2: the estimate from the leading limbs is at most two
\* too large (Knuth, TAOCP 4.3.1, algorithm D) and is lowered until it fits.
RECURSIVE BDigitFit(_, _, _)
BDigitFit(r, d, qhat) ==
    IF qhat > 0 /\ BCmp(BMulLimbC(d, qhat, 0), r) > 0
    THEN BDigitFit(r, d, qhat - 1)
    ELSE qhat

BDigit(r, d) ==
    LET n == Len(d)
        top == (IF Len(r) > n THEN r[n + 1] ELSE 0) * Base
               + (IF Len(r) >= n THEN r[n] ELSE 0)
        est == top \div d[n]
    IN  BDigitFit(r, d, IF est > Base - 1 THEN Base - 1 ELSE est)

\* <<the digits of floor(r * Base^k / d), most significant first, after those
\* of q; whether a remainder is left>> for r < d
RECURSIVE BDivDigits(_, _, _, _)
BDivDigits(r, d, k, q) ==
    IF k = 0 THEN <<q, r # <<>> >>
    ELSE LET r1 == IF r = <<>> THEN r ELSE <<0>> \o r
             g == BDigit(r1, d)
         IN  BDivDigits(BSub(r1, BTrim(BMulLimbC(d, g, 0))), d, k - 1, <<g>> \o q)

\* <<floor(a * Base^k / d), whether a remainder is left>> for d # 0 and a < 2 * d
BDivShifted(a, d, k) ==
    LET sh == (LimbBits - (BBitLen(d) % LimbBits)) % LimbBits
        a1 == BShl(a, sh)
        d1 == BShl(d, sh)
        q0 == IF BCmp(a1, d1) >= 0 THEN 1 ELSE 0
        qr == BDivDigits(IF q0 = 1 THEN BSub(a1, d1) ELSE a1, d1, k, <<q0>>)
    IN  <<BTrim(qr[1]), qr[2]>>

(***************************************************************************)
(* 2. Python floats (binary64).  A float is [s, m, e] with value            *)
(*    (-1)^s * m * 2^e, where m has exactly MantBits bits; zero is FZero    *)
(*    (the sign of a zero is not kept).  Every operation rounds the exact   *)
(*    result to the nearest float, ties to the even mantissa.               *)
(***************************************************************************)
MantBits == 53

FZero == [s |-> 0, m |-> <<>>, e |-> 0]

\* the float nearest to (-1)^s * (n + t) * 2^e, where 0 <= t < 1 and t # 0
\* exactly when sticky (sticky only with BBitLen(n) > MantBits)
FRound(s, n, e, sticky) ==
    IF n = <<>> THEN FZero
    ELSE LET len == BBitLen(n)
         IN  IF len <= MantBits
             THEN [s |-> s, m |-> BShl(n, MantBits - len), e |-> e - (MantBits - len)]
             ELSE LET sh == len - MantBits
                      q == BShr(n, sh)
                      half == BBit(n, sh - 1) = 1
                      rest == sticky \/ BLowNonzero(n, sh - 1)
                      up == half /\ (rest \/ q[1] % 2 = 1)
                      q1 == IF up THEN BAdd(q, <<1>>) ELSE q
                  IN  IF BBitLen(q1) > MantBits
                      THEN [s |-> s, m |-> BShr(q1, 1), e |-> e + sh + 1]
                      ELSE [s |-> s, m |-> q1, e |-> e + sh]

\* int -> float
FInt(n) == FRound(IF n < 0 THEN 1 ELSE 0, BFromNat(IF n < 0 THEN -n ELSE n), 0, FALSE)

FNeg(x) == IF x.m = <<>> THEN x ELSE [x EXCEPT !.s = 1 - x.s]
FAbs(x) == [x EXCEPT !.s = 0]

\* x + y
FAdd(x, y) ==
    IF x.m = <<>> THEN y
    ELSE IF y.m = <<>> THEN x
    ELSE LET hi == IF x.e >= y.e THEN x ELSE y
             lo == IF x.e >= y.e THEN y ELSE x
             a == BShl(hi.m, hi.e - lo.e)
             c == BCmp(a, lo.m)
         IN  IF hi.s = lo.s THEN FRound(hi.s, BAdd(a, lo.m), lo.e, FALSE)
             ELSE IF c = 0 THEN FZero
             ELSE IF c > 0 THEN FRound(hi.s, BSub(a, lo.m), lo.e, FALSE)
             ELSE FRound(lo.s, BSub(lo.m, a), lo.e, FALSE)

\* x - y
FSub(x, y) == FAdd(x, FNeg(y))

\* x * y
FMul(x, y) ==
    IF x.m = <<>> \/ y.m = <<>> THEN FZero
    ELSE FRound((x.s + y.s) % 2, BMul(x.m, y.m), x.e + y.e, FALSE)

\* limbs of quotient computed after the leading bit: more than MantBits + 1 bits
DivLimbs == MantBits \div LimbBits + 1

\* x / y for y # 0 (Python raises ZeroDivisionError on y = 0: see the callers)
FDiv(x, y) ==
    IF x.m = <<>> THEN FZero
    ELSE LET qr == BDivShifted(x.m, y.m, DivLimbs)
         IN  FRound((x.s + y.s) % 2, qr[1], x.e - y.e - DivLimbs * LimbBits, qr[2])

\* x ** n for an int n >= 0 (libm pow, taken as correctly rounded)
FPow(x, n) ==
    IF n = 0 THEN FInt(1)
    ELSE IF x.m = <<>> THEN FZero
    ELSE FRound(IF n % 2 = 1 THEN x.s ELSE 0, BPow(x.m, n), n * x.e, FALSE)

\* the sign of x: -1, 0, 1
FSign(x) == IF x.m = <<>> THEN 0 ELSE IF x.s = 1 THEN -1 ELSE 1

FLt(x, y) == FSign(FSub(x, y)) < 0
FLe(x, y) == FSign(FSub(x, y)) <= 0

\* int(x): x truncated toward zero (for |x| < Base^2)
FTrunc(x) ==
    IF x.m = <<>> THEN 0
    ELSE LET n == IF x.e >= 0 THEN BToNat(BShl(x.m, x.e)) ELSE BToNat(BShr(x.m, -x.e))
         IN  IF x.s = 1 THEN -n ELSE n


(***************************************************************************)
(* 3. Python values: a float, or a raised exception [exc |-> name].  An     *)
(*    operand that raised makes the expression raise (left operand first).  *)
(***************************************************************************)
Raised(name) == [exc |-> name]
IsExc(x) == "exc" \in DOMAIN x

Add(x, y) == IF IsExc(x) THEN x ELSE IF IsExc(y) THEN y ELSE FAdd(x, y)
Mul(x, y) == IF IsExc(x) THEN x ELSE IF IsExc(y) THEN y ELSE FMul(x, y)
Neg(x) == IF IsExc(x) THEN x ELSE FNeg(x)
Pow(x, n) == IF IsExc(x) THEN x ELSE FPow(x, n)
Div(x, y) ==
    IF IsExc(x) THEN x
    ELSE IF IsExc(y) THEN y
    ELSE IF y.m = <<>> THEN Raised("ZeroDivisionError")
    ELSE FDiv(x, y)

(***************************************************************************)
(* 4. The functions of src/bond-pricer.py                                   *)
(***************************************************************************)
frequency_map ==
    [f \in {"Annual", "Semi-annual", "Quarterly", "Monthly"} |->
        CASE f = "Annual" -> 1
          [] f = "Semi-annual" -> 2
          [] f = "Quarterly" -> 4
          [] f = "Monthly" -> 12]

get_payments_per_year(frequency) == frequency_map[frequency]

adjust_rates_for_frequency(rate, frequency) ==
    Div(rate, FInt(get_payments_per_year(frequency)))

\* periods = int(years_to_maturity * payments_per_year)
Periods(years_to_maturity, frequency) ==
    FTrunc(FMul(years_to_maturity, FInt(get_payments_per_year(frequency))))

\* DiscountLoop with range(i, periods): the last coupon is missed
RECURSIVE DiscountLoopShort(_, _, _, _, _)
DiscountLoopShort(bond_price, i, periods, coupon_payment, growth) ==
    IF i >= periods THEN bond_price
    ELSE DiscountLoopShort(Add(bond_price, Div(coupon_payment, Pow(growth, i))),
                           i + 1, periods, coupon_payment, growth)

\* for i in range(i, periods + 1): bond_price += coupon_payment / (growth ** i)
\* where growth is 1 + periodic_discount_rate
RECURSIVE DiscountLoop(_, _, _, _, _)
DiscountLoop(bond_price, i, periods, coupon_payment, growth) ==
    IF i > periods THEN bond_price
    ELSE DiscountLoop(Add(bond_price, Div(coupon_payment, Pow(growth, i))),
                      i + 1, periods, coupon_payment, growth)

\* bond_pricer compounding the face value instead of discounting it
bond_pricer_compounding(face_value, coupon_rate, years_to_maturity, discount_rate, frequency) ==
    LET periods == Periods(years_to_maturity, frequency)
        periodic_coupon_rate == adjust_rates_for_frequency(coupon_rate, frequency)
        periodic_discount_rate == adjust_rates_for_frequency(discount_rate, frequency)
        coupon_payment == Mul(face_value, periodic_coupon_rate)
        growth == Add(FInt(1), periodic_discount_rate)
        bond_price == DiscountLoop(FZero, 1, periods, coupon_payment, growth)
    IN  Add(bond_price, Mul(face_value, Pow(growth, periods)))

bond_pricer(face_value, coupon_rate, years_to_maturity, discount_rate, frequency) ==
    LET periods == Periods(years_to_maturity, frequency)
        periodic_coupon_rate == adjust_rates_for_frequency(coupon_rate, frequency)
        periodic_discount_rate == adjust_rates_for_frequency(discount_rate, frequency)
        coupon_payment == Mul(face_value, periodic_coupon_rate)
        growth == Add(FInt(1), periodic_discount_rate)
        bond_price == DiscountLoop(FZero, 1, periods, coupon_payment, growth)
    IN  Add(bond_price, Div(face_value, Pow(growth, periods)))

\* for i in range(i, periods + 1): total += coupon_payment / (growth ** i)
\* of npv, where growth is 1 + periodic_ytm
RECURSIVE NpvLoop(_, _, _, _, _)
NpvLoop(total, i, periods, coupon_payment, growth) ==
    IF i > periods THEN total
    ELSE NpvLoop(Add(total, Div(coupon_payment, Pow(growth, i))),
                 i + 1, periods, coupon_payment, growth)

\* npv discounting at the annual yield: periodic_ytm = ytm
npv_annual(face_value, coupon_rate, years_to_maturity, price, frequency, ytm) ==
    LET periods == Periods(years_to_maturity, frequency)
        periodic_coupon_rate == adjust_rates_for_frequency(coupon_rate, frequency)
        coupon_payment == Mul(face_value, periodic_coupon_rate)
        growth == Add(FInt(1), ytm)
        total == NpvLoop(Neg(price), 1, periods, coupon_payment, growth)
    IN  Add(total, Div(face_value, Pow(growth, periods)))

\* npv(ytm) of calculate_yield_to_maturity
npv(face_value, coupon_rate, years_to_maturity, price, frequency, ytm) ==
    LET payments_per_year == get_payments_per_year(frequency)
        periods == Periods(years_to_maturity, frequency)
        periodic_coupon_rate == adjust_rates_for_frequency(coupon_rate, frequency)
        periodic_ytm == Div(ytm, FInt(payments_per_year))
        coupon_payment == Mul(face_value, periodic_coupon_rate)
        growth == Add(FInt(1), periodic_ytm)
        total == NpvLoop(Neg(price), 1, periods, coupon_payment, growth)
    IN  Add(total, Div(face_value, Pow(growth, periods)))

\* the bracket cut at a third
MidpointThird(lo, hi) == Div(Add(lo, hi), FInt(3))

\* mid = (low + high) / 2
Midpoint(lo, hi) == Div(Add(lo, hi), FInt(2))

\* for i in range(i, periods + 1) of calculate_duration:
\* <<weighted_time, pv_total>>
RECURSIVE DurationLoop(_, _, _, _, _, _)
DurationLoop(acc, i, periods, coupon_payment, growth, payments_per_year) ==
    IF i > periods THEN acc
    ELSE LET pv == Div(coupon_payment, Pow(growth, i))
         IN  DurationLoop(<<Add(acc[1], Mul(Div(FInt(i), FInt(payments_per_year)), pv)),
                            Add(acc[2], pv)>>,
                          i + 1, periods, coupon_payment, growth, payments_per_year)

\* calculate_duration with the face value weighted by the time of the last
\* period, periods / payments_per_year
calculate_duration_by_periods(face_value, coupon_rate, years_to_maturity, discount_rate, frequency) ==
    LET payments_per_year == get_payments_per_year(frequency)
        periods == Periods(years_to_maturity, frequency)
        periodic_coupon_rate == adjust_rates_for_frequency(coupon_rate, frequency)
        periodic_discount_rate == adjust_rates_for_frequency(discount_rate, frequency)
        coupon_payment == Mul(face_value, periodic_coupon_rate)
        growth == Add(FInt(1), periodic_discount_rate)
        sums == DurationLoop(<<FZero, FZero>>, 1, periods, coupon_payment, growth,
                             payments_per_year)
        final_pv == Div(face_value, Pow(growth, periods))
        weighted_time ==
            Add(sums[1], Mul(Div(FInt(periods), FInt(payments_per_year)), final_pv))
        pv_total == Add(sums[2], final_pv)
        macaulay_duration == Div(weighted_time, pv_total)
        modified_duration == Div(macaulay_duration, growth)
    IN  IF IsExc(macaulay_duration) THEN macaulay_duration
        ELSE IF IsExc(modified_duration) THEN modified_duration
        ELSE [macaulay_duration |-> macaulay_duration,
              modified_duration |-> modified_duration]

\* weighted_time / pv_total and its division by 1 + periodic_discount_rate
calculate_duration(face_value, coupon_rate, years_to_maturity, discount_rate, frequency) ==
    LET payments_per_year == get_payments_per_year(frequency)
        periods == Periods(years_to_maturity, frequency)
        periodic_coupon_rate == adjust_rates_for_frequency(coupon_rate, frequency)
        periodic_discount_rate == adjust_rates_for_frequency(discount_rate, frequency)
        coupon_payment == Mul(face_value, periodic_coupon_rate)
        growth == Add(FInt(1), periodic_discount_rate)
        sums == DurationLoop(<<FZero, FZero>>, 1, periods, coupon_payment, growth,
                             payments_per_year)
        final_pv == Div(face_value, Pow(growth, periods))
        weighted_time == Add(sums[1], Mul(years_to_maturity, final_pv))
        pv_total == Add(sums[2], final_pv)
        macaulay_duration == Div(weighted_time, pv_total)
        modified_duration == Div(macaulay_duration, growth)
    IN  IF IsExc(macaulay_duration) THEN macaulay_duration
        ELSE IF IsExc(modified_duration) THEN modified_duration
        ELSE [macaulay_duration |-> macaulay_duration,
              modified_duration |-> modified_duration]

\* for i in range(i, periods + 1) of calculate_convexity:
\* <<weighted_squares, pv_total>>
RECURSIVE ConvexityLoop(_, _, _, _, _, _)
ConvexityLoop(acc, i, periods, coupon_payment, growth, payments_per_year) ==
    IF i > periods THEN acc
    ELSE LET period_in_years == Div(FInt(i), FInt(payments_per_year))
             pv == Div(coupon_payment, Pow(growth, i))
             step == Add(period_in_years, Div(FInt(1), FInt(payments_per_year)))
         IN  ConvexityLoop(<<Add(acc[1], Mul(Mul(period_in_years, step), pv)),
                             Add(acc[2], pv)>>,
                           i + 1, periods, coupon_payment, growth, payments_per_year)

calculate_convexity(face_value, coupon_rate, years_to_maturity, discount_rate, frequency) ==
    LET payments_per_year == get_payments_per_year(frequency)
        periods == Periods(years_to_maturity, frequency)
        periodic_coupon_rate == adjust_rates_for_frequency(coupon_rate, frequency)
        periodic_discount_rate == adjust_rates_for_frequency(discount_rate, frequency)
        coupon_payment == Mul(face_value, periodic_coupon_rate)
        growth == Add(FInt(1), periodic_discount_rate)
        sums == ConvexityLoop(<<FZero, FZero>>, 1, periods, coupon_payment, growth,
                              payments_per_year)
        final_pv == Div(face_value, Pow(growth, periods))
        step == Add(years_to_maturity, Div(FInt(1), FInt(payments_per_year)))
        weighted_squares == Add(sums[1], Mul(Mul(years_to_maturity, step), final_pv))
        pv_total == Add(sums[2], final_pv)
    IN  Div(weighted_squares, Mul(pv_total, Pow(growth, 2)))

DaysPerYear == 360

\* calculate_accrued_interest with the days held to one period
calculate_accrued_interest_clamped(face_value, coupon_rate, last_payment_date, frequency, clock) ==
    LET payments_per_year == get_payments_per_year(frequency)
        days_per_period == Div(FInt(DaysPerYear), FInt(payments_per_year))
        days_since_last_payment == FInt(clock - last_payment_date)
        days_counted == IF FLt(days_per_period, days_since_last_payment)
                        THEN days_per_period ELSE days_since_last_payment
        periodic_coupon_rate == adjust_rates_for_frequency(coupon_rate, frequency)
    IN  Mul(Div(days_counted, days_per_period), Mul(face_value, periodic_coupon_rate))

\* date.today() is the argument clock: the function reads it, the caller
\* does not pass it.  Dates are day numbers.
calculate_accrued_interest(face_value, coupon_rate, last_payment_date, frequency, clock) ==
    LET payments_per_year == get_payments_per_year(frequency)
        days_per_period == Div(FInt(DaysPerYear), FInt(payments_per_year))
        days_since_last_payment == clock - last_payment_date
        periodic_coupon_rate == adjust_rates_for_frequency(coupon_rate, frequency)
    IN  Mul(Div(FInt(days_since_last_payment), days_per_period),
            Mul(face_value, periodic_coupon_rate))

\* the cashflows list of create_cashflow_diagram (the figure drawn from it is
\* presentation); cashflows[-1] of an empty list raises IndexError
create_cashflow_diagram(face_value, coupon_rate, years_to_maturity, frequency) ==
    LET payments_per_year == get_payments_per_year(frequency)
        periods == Periods(years_to_maturity, frequency)
        periodic_coupon_payment == Mul(face_value, Div(coupon_rate, FInt(payments_per_year)))
    IN  IF periods <= 0 THEN Raised("IndexError")
        ELSE [cashflows |->
                [i \in 1..periods |->
                    IF i = periods THEN Add(periodic_coupon_payment, face_value)
                    ELSE periodic_coupon_payment]]


Iterations == 50

\* BisectStep with the test turned round: npv(mid) < 0
BisectStepTurned(a, lo, hi) ==
    LET mid == Midpoint(lo, hi)
        v == npv(a.face_value, a.coupon_rate, a.years_to_maturity, a.price,
                 a.frequency, mid)
    IN  IF IsExc(v) THEN v
        ELSE IF FSign(v) < 0 THEN [low |-> mid, high |-> hi]
        ELSE [low |-> lo, high |-> mid]

\* one pass of "for _ in range(50)": the bracket after it, or the exception
\* npv raised
BisectStep(a, lo, hi) ==
    LET mid == Midpoint(lo, hi)
        v == npv(a.face_value, a.coupon_rate, a.years_to_maturity, a.price,
                 a.frequency, mid)
    IN  IF IsExc(v) THEN v
        ELSE IF FSign(v) > 0 THEN [low |-> mid, high |-> hi]
        ELSE [low |-> lo, high |-> mid]

(***************************************************************************)
(* 5. Inputs.  Face values, rates and years are floats the callers can      *)
(*    pass: the dashboard passes whole face values from 100 up, rates that  *)
(*    are a slider value divided by 100 and whole years; the functions      *)
(*    take any float.                                                        *)
(***************************************************************************)
MaxQuarters == 12   \* years_to_maturity is at most MaxQuarters / 4
MaxPeriods == 3     \* bonds of more periods are left out
MaxDay == 2         \* the clock runs over days 0..MaxDay

Frequencies == DOMAIN frequency_map
FaceValues == {FInt(100), FInt(1000)}
CouponRates == {FZero, FDiv(FInt(5), FInt(100)), FDiv(FInt(125), FInt(1000))}
Years == {FDiv(FInt(q), FInt(4)) : q \in 0..MaxQuarters}
\* 2^-60: 1 + Tiny is 1
Tiny == FMul(FDiv(FInt(1), FInt(2 ^ 30)), FDiv(FInt(1), FInt(2 ^ 30)))
DiscountRates ==
    {FInt(-1), FZero, Tiny, FDiv(FInt(5), FInt(100)), FDiv(FInt(6), FInt(100)),
     FDiv(FInt(30), FInt(100))}
YieldRates == {FDiv(FInt(5), FInt(100)), FDiv(FInt(1), FInt(4)), FDiv(FInt(30), FInt(100))}
LastPaymentDates == {-45, -31, -1, 0, 1}

Bonds ==
    {b \in [face_value : FaceValues, coupon_rate : CouponRates,
            years_to_maturity : Years, frequency : Frequencies] :
        Periods(b.years_to_maturity, b.frequency) <= MaxPeriods}

WithRate(b, r) ==
    [face_value |-> b.face_value, coupon_rate |-> b.coupon_rate,
     years_to_maturity |-> b.years_to_maturity, discount_rate |-> r,
     frequency |-> b.frequency]

WithPrice(b, p) ==
    [face_value |-> b.face_value, coupon_rate |-> b.coupon_rate,
     years_to_maturity |-> b.years_to_maturity, price |-> p,
     frequency |-> b.frequency]

PriceOf(b, r) ==
    bond_pricer(b.face_value, b.coupon_rate, b.years_to_maturity, r, b.frequency)

RateArgs == {WithRate(b, r) : b \in Bonds, r \in DiscountRates}

\* the bonds given to the yield solver, and the prices asked of it: the
\* price of the bond at a rate of YieldRates, a price no yield in [0, 1]
\* gives (1, below the price at 100%; twice the price at 0%), and the price
\* at 0% itself
YieldBonds ==
    {b \in Bonds : /\ Periods(b.years_to_maturity, b.frequency) >= 1
                   /\ b.face_value = FInt(1000)
                   /\ b.coupon_rate \in {FZero, FDiv(FInt(5), FInt(100))}}
PricesAsked(b) ==
    {PriceOf(b, r) : r \in YieldRates}
        \cup {FInt(1), PriceOf(b, FZero), FMul(FInt(2), PriceOf(b, FZero))}
YieldArgs == UNION {{WithPrice(b, p) : p \in PricesAsked(b)} : b \in YieldBonds}

AccruedArgs ==
    [face_value : FaceValues, coupon_rate : CouponRates,
     last_payment_date : LastPaymentDates, frequency : Frequencies]

CashflowArgs ==
    {[face_value |-> b.face_value, coupon_rate |-> b.coupon_rate,
      years_to_maturity |-> b.years_to_maturity, frequency |-> b.frequency] :
        b \in Bonds}

\* the few calls of the specification that keeps a history of calls
FewBonds ==
    {b \in Bonds : /\ b.face_value = FInt(1000)
                   /\ b.coupon_rate = FDiv(FInt(5), FInt(100))
                   /\ b.years_to_maturity \in {FDiv(FInt(1), FInt(2)), FInt(1)}
                   /\ b.frequency \in {"Annual", "Semi-annual"}}
FewRateArgs == {WithRate(b, FDiv(FInt(5), FInt(100))) : b \in FewBonds}
FewYieldArgs == {WithPrice(b, FInt(950)) : b \in FewBonds}
FewAccruedArgs ==
    {a \in AccruedArgs : /\ a.face_value = FInt(1000)
                         /\ a.coupon_rate = FDiv(FInt(5), FInt(100))
                         /\ a.last_payment_date \in {-31, 0}
                         /\ a.frequency \in {"Annual", "Monthly"}}
FewCashflowArgs == {a \in CashflowArgs : \E b \in FewBonds : a = b}

(***************************************************************************)
(* 6. The program as a state machine: a caller (main, or a test) calls one  *)
(*    function at a time; the calendar moves between calls.                  *)
(***************************************************************************)
VARIABLES
    today,  \* what date.today() returns, a day number
    pc,     \* "idle", "bisect" (in the loop of the yield solver), "done"
    fn,     \* the function called
    args,   \* its arguments
    low,    \* the yield solver's bracket
    high,
    k,      \* passes of its loop completed
    ret,    \* the value returned or the exception raised
    prev    \* history: the last completed call

vars == <<today, pc, fn, args, low, high, k, ret, prev>>

None == [none |-> TRUE]

Init ==
    /\ today = 0
    /\ pc = "idle"
    /\ fn = "none"
    /\ args = None
    /\ low = None
    /\ high = None
    /\ k = 0
    /\ ret = None
    /\ prev = None

\* midnight passes
Tick ==
    /\ pc = "idle"
    /\ today < MaxDay
    /\ today' = today + 1
    /\ UNCHANGED <<pc, fn, args, low, high, k, ret, prev>>

Returns(f, a, v) ==
    /\ pc = "idle"
    /\ pc' = "done"
    /\ fn' = f
    /\ args' = a
    /\ ret' = v
    /\ UNCHANGED <<today, low, high, k, prev>>

CallBondPricer(A) ==
    \E a \in A :
        Returns("bond_pricer", a,
                bond_pricer(a.face_value, a.coupon_rate, a.years_to_maturity,
                            a.discount_rate, a.frequency))

CallDuration(A) ==
    \E a \in A :
        Returns("calculate_duration", a,
                calculate_duration(a.face_value, a.coupon_rate, a.years_to_maturity,
                                   a.discount_rate, a.frequency))

CallConvexity(A) ==
    \E a \in A :
        Returns("calculate_convexity", a,
                calculate_convexity(a.face_value, a.coupon_rate, a.years_to_maturity,
                                    a.discount_rate, a.frequency))

CallAccruedInterest(A) ==
    \E a \in A :
        Returns("calculate_accrued_interest", a,
                calculate_accrued_interest(a.face_value, a.coupon_rate,
                                           a.last_payment_date, a.frequency, today))

CallCashflowDiagram(A) ==
    \E a \in A :
        Returns("create_cashflow_diagram", a,
                create_cashflow_diagram(a.face_value, a.coupon_rate,
                                        a.years_to_maturity, a.frequency))

\* calculate_yield_to_maturity up to its loop: low, high = 0.0, 1.0
CallYield(A) ==
    \E a \in A :
        /\ pc = "idle"
        /\ pc' = "bisect"
        /\ fn' = "calculate_yield_to_maturity"
        /\ args' = a
        /\ low' = FZero
        /\ high' = FInt(1)
        /\ k' = 0
        /\ UNCHANGED <<today, ret, prev>>

\* one pass of the loop
Bisect ==
    /\ pc = "bisect"
    /\ k < Iterations
    /\ \E st \in {BisectStep(args, low, high)} :
           IF IsExc(st)
           THEN /\ pc' = "done"
                /\ ret' = st
                /\ UNCHANGED <<low, high, k>>
           ELSE /\ low' = st.low
                /\ high' = st.high
                /\ k' = k + 1
                /\ UNCHANGED <<pc, ret>>
    /\ UNCHANGED <<today, fn, args, prev>>

\* return (low + high) / 2
YieldReturn ==
    /\ pc = "bisect"
    /\ k = Iterations
    /\ pc' = "done"
    /\ ret' = Midpoint(low, high)
    /\ UNCHANGED <<today, fn, args, low, high, k, prev>>

\* the caller takes the result
Return ==
    /\ pc = "done"
    /\ pc' = "idle"
    /\ fn' = "none"
    /\ args' = None
    /\ low' = None
    /\ high' = None
    /\ k' = 0
    /\ ret' = None
    /\ UNCHANGED <<today, prev>>

\* the same, the call kept in the history
ReturnRecorded ==
    /\ pc = "done"
    /\ pc' = "idle"
    /\ fn' = "none"
    /\ args' = None
    /\ low' = None
    /\ high' = None
    /\ k' = 0
    /\ ret' = None
    /\ prev' = [fn |-> fn, args |-> args, ret |-> ret]
    /\ UNCHANGED today

\* every function, a few calls of each, with the history of calls
Next ==
    \/ Tick
    \/ CallBondPricer(FewRateArgs)
    \/ CallDuration(FewRateArgs)
    \/ CallConvexity(FewRateArgs)
    \/ CallAccruedInterest(FewAccruedArgs)
    \/ CallCashflowDiagram(FewCashflowArgs)
    \/ CallYield(FewYieldArgs)
    \/ Bisect
    \/ YieldReturn
    \/ ReturnRecorded

Spec == Init /\ [][Next]_vars

NextPricer == CallBondPricer(RateArgs) \/ Return
SpecPricer == Init /\ [][NextPricer]_vars

NextYield == CallYield(YieldArgs) \/ Bisect \/ YieldReturn \/ Return
SpecYield == Init /\ [][NextYield]_vars

NextRisk == CallDuration(RateArgs) \/ Return
SpecRisk == Init /\ [][NextRisk]_vars

NextAccrued == Tick \/ CallAccruedInterest(AccruedArgs) \/ Return
SpecAccrued == Init /\ [][NextAccrued]_vars


(***************************************************************************)
(* 7. The claims                                                            *)
(***************************************************************************)
Completed(f) == pc = "done" /\ fn = f

\* face value > 0, coupon rate >= 0, periods >= 1
ValidBond(a) ==
    /\ FSign(a.face_value) > 0
    /\ FSign(a.coupon_rate) >= 0
    /\ Periods(a.years_to_maturity, a.frequency) >= 1

\* 1 + rate / payments_per_year
Growth(rate, frequency) ==
    Add(FInt(1), Div(rate, FInt(get_payments_per_year(frequency))))

\* sum over i = 1..n of coupon_payment / growth^i, the terms added as i grows
RECURSIVE CouponSum(_, _, _)
CouponSum(n, coupon_payment, growth) ==
    IF n = 0 THEN FZero
    ELSE Add(CouponSum(n - 1, coupon_payment, growth),
             Div(coupon_payment, Pow(growth, n)))

PriceFormula(a) ==
    LET n == Periods(a.years_to_maturity, a.frequency)
        growth == Growth(a.discount_rate, a.frequency)
        coupon_payment ==
            Mul(a.face_value, Div(a.coupon_rate, FInt(get_payments_per_year(a.frequency))))
    IN  Add(CouponSum(n, coupon_payment, growth), Div(a.face_value, Pow(growth, n)))

\* C1: with periods >= 1, bond_pricer returns the sum over i = 1..periods of
\* coupon_payment / (1 + discount_rate / payments_per_year)^i plus
\* face_value / (1 + discount_rate / payments_per_year)^periods (where the
\* formula divides by zero, the call raises ZeroDivisionError).
C1_PriceIsDiscountedSum ==
    (Completed("bond_pricer") /\ Periods(args.years_to_maturity, args.frequency) >= 1)
        => ret = PriceFormula(args)

C1_Witness ==
    /\ Completed("bond_pricer")
    /\ Periods(args.years_to_maturity, args.frequency) = MaxPeriods
    /\ FSign(args.coupon_rate) > 0
    /\ FSign(args.discount_rate) > 0
    /\ ~IsExc(ret)

\* the rates below the rate of the completed call, from 0 up
LowerRates == {r \in DiscountRates : FSign(r) >= 0 /\ FLt(r, args.discount_rate)}

MinGap == FDiv(FInt(1), FInt(100))

Yield == "calculate_yield_to_maturity"

Tolerance == FDiv(FInt(1), FInt(1000000))

\* C3: for a valid bond and a rate r in (0, 0.5), the yield solved from the
\* price bond_pricer gives at r is within 1e-6 of r.
C3_RoundTrip ==
    Completed(Yield) =>
        \A r \in YieldRates :
            (ValidBond(args) /\ args.price = PriceOf(args, r))
                => /\ ~IsExc(ret)
                   /\ FLe(FAbs(FSub(ret, r)), Tolerance)

C3_Witness ==
    /\ Completed(Yield)
    /\ Periods(args.years_to_maturity, args.frequency) = MaxPeriods
    /\ FSign(args.coupon_rate) > 0
    /\ args.frequency = "Semi-annual"
    /\ args.price = PriceOf(args, FDiv(FInt(5), FInt(100)))
    /\ ~IsExc(ret)

\* 2^-n
TwoToMinus(n) == [FInt(1) EXCEPT !.e = @ - n]

\* the bracket after k passes: inside [0, 1], of width 2^-k, and [0, 1] at first
Bracket ==
    /\ k \in 0..Iterations
    /\ FLe(FZero, low) /\ FLe(low, high) /\ FLe(high, FInt(1))
    /\ FSub(high, low) = TwoToMinus(k)
    /\ k = 0 => low = FZero /\ high = FInt(1)

\* a pass of the loop runs before the 50th is over, counts one and moves one
\* end of the bracket to its midpoint
OneEndMoves ==
    (pc = "bisect" /\ pc' = "bisect" /\ k' # k)
        => /\ k < Iterations
           /\ k' = k + 1
           /\ \/ low' = Midpoint(low, high) /\ high' = high
              \/ high' = Midpoint(low, high) /\ low' = low

\* the loop is left only when 50 passes are over, by returning the midpoint
LeftAfterFifty ==
    (pc = "bisect" /\ pc' # "bisect")
        => /\ k = Iterations
           /\ Completed(Yield)'
           /\ ret' = Midpoint(low, high)
           /\ UNCHANGED <<low, high, k>>

\* C4: the solver starts from the bracket [0, 1]; after k passes 0 <= low <=
\* high <= 1 and high - low = 2^-k, each pass moving one end to the midpoint;
\* whatever the input, the loop is over after exactly 50 passes (k counts up
\* to 50 by ones and no pass raises) and the midpoint of the last bracket is
\* returned.
C4_FiftyHalvings ==
    /\ [](fn = Yield => Bracket)
    /\ [][OneEndMoves]_vars
    /\ [][LeftAfterFifty]_vars

C4_Witness ==
    /\ Completed(Yield)
    /\ k = Iterations
    /\ FLt(FZero, low)
    /\ FLt(high, FInt(1))

NpvAt(a, y) ==
    npv(a.face_value, a.coupon_rate, a.years_to_maturity, a.price, a.frequency, y)

\* C5: when no yield in [0, 1] matches the price, the solver raises nothing
\* and returns a value at the end of the bracket: within 2^-50 of 0 when npv
\* is nowhere positive (npv(0) <= 0), within 2^-50 of 1 when npv is positive
\* throughout (npv(1) > 0).
C5_ClampedToBracket ==
    (Completed(Yield) /\ ValidBond(args)) =>
        /\ FSign(NpvAt(args, FZero)) <= 0
              => ~IsExc(ret) /\ FLe(FAbs(ret), TwoToMinus(Iterations))
        /\ FSign(NpvAt(args, FInt(1))) > 0
              => ~IsExc(ret) /\ FLe(FAbs(FSub(ret, FInt(1))), TwoToMinus(Iterations))

\* a price below the price at a yield of 100%: the solver ends at 1
C5_Witness ==
    /\ Completed(Yield)
    /\ ValidBond(args)
    /\ FSign(NpvAt(args, FInt(1))) > 0
    /\ ~IsExc(ret)
    /\ FLt(FDiv(FInt(1), FInt(2)), ret)

Duration == "calculate_duration"

\* sum over i = 1..n of (i / payments_per_year) * coupon_payment / growth^i
RECURSIVE TimeWeightedSum(_, _, _, _)
TimeWeightedSum(n, coupon_payment, growth, payments_per_year) ==
    IF n = 0 THEN FZero
    ELSE Add(TimeWeightedSum(n - 1, coupon_payment, growth, payments_per_year),
             Mul(Div(FInt(n), FInt(payments_per_year)),
                 Div(coupon_payment, Pow(growth, n))))

\* sum(time_i * pv_i) / sum(pv_i) over the schedule bond_pricer discounts,
\* the face value at time periods / payments_per_year with the last coupon
MacaulayOfSchedule(a) ==
    LET payments_per_year == get_payments_per_year(a.frequency)
        n == Periods(a.years_to_maturity, a.frequency)
        growth == Growth(a.discount_rate, a.frequency)
        coupon_payment == Mul(a.face_value, Div(a.coupon_rate, FInt(payments_per_year)))
        final_pv == Div(a.face_value, Pow(growth, n))
    IN  Div(Add(TimeWeightedSum(n, coupon_payment, growth, payments_per_year),
                Mul(Div(FInt(n), FInt(payments_per_year)), final_pv)),
            Add(CouponSum(n, coupon_payment, growth), final_pv))

\* C6 as claimed: with periods >= 1, whole or not the product years_to_maturity
\* * payments_per_year, the Macaulay duration is sum(time_i * pv_i) / sum(pv_i)
\* with every cash flow of period i, the face value too, at time
\* i / payments_per_year, and the modified duration is the Macaulay duration
\* divided by 1 + discount_rate / payments_per_year.
C6_EveryFlowAtItsPeriod ==
    (/\ Completed(Duration)
     /\ Periods(args.years_to_maturity, args.frequency) >= 1
     /\ ~IsExc(ret))
        => /\ ret.macaulay_duration = MacaulayOfSchedule(args)
           /\ ret.modified_duration =
                  Div(MacaulayOfSchedule(args), Growth(args.discount_rate, args.frequency))

\* a single cash flow at the end: no coupon, face value > 0, periods >= 1,
\* discount rate other than -payments_per_year
ZeroCoupon(a) ==
    /\ a.coupon_rate = FZero
    /\ FSign(a.face_value) > 0
    /\ Periods(a.years_to_maturity, a.frequency) >= 1
    /\ a.discount_rate # FInt(-get_payments_per_year(a.frequency))

\* C7 as claimed: for a single cash flow at the end, the Macaulay duration is
\* years_to_maturity exactly.
C7_ExactlyYears ==
    (Completed(Duration) /\ ZeroCoupon(args))
        => /\ ~IsExc(ret)
           /\ ret.macaulay_duration = args.years_to_maturity

\* C7, amended: for a single cash flow at the end, the Macaulay duration is
\* years_to_maturity up to the rounding of one multiplication and one
\* division: they differ by at most 2^-52 * years_to_maturity.
C7_YearsWithinRounding ==
    (Completed(Duration) /\ ZeroCoupon(args))
        => /\ ~IsExc(ret)
           /\ FLe(FAbs(FSub(ret.macaulay_duration, args.years_to_maturity)),
                  FMul(args.years_to_maturity, TwoToMinus(MantBits - 1)))

\* a single cash flow whose duration is not the years to maturity
C7_Witness ==
    /\ Completed(Duration)
    /\ ZeroCoupon(args)
    /\ ~IsExc(ret)
    /\ ret.macaulay_duration # args.years_to_maturity

Accrued == "calculate_accrued_interest"

\* (days / (360 / payments_per_year)) * (face_value * coupon_rate / payments_per_year)
AccruedFormula(a, days) ==
    LET payments_per_year == FInt(get_payments_per_year(a.frequency))
    IN  Mul(Div(FInt(days), Div(FInt(360), payments_per_year)),
            Mul(a.face_value, Div(a.coupon_rate, payments_per_year)))

\* one coupon: face_value * coupon_rate / payments_per_year
Coupon(a) ==
    Mul(a.face_value, Div(a.coupon_rate, FInt(get_payments_per_year(a.frequency))))

\* x and y differ by at most 2^-50 * |x|
Close(x, y) == FLe(FAbs(FSub(x, y)), FMul(FAbs(x), TwoToMinus(50)))

\* C8: calculate_accrued_interest returns (days_elapsed / (360 /
\* payments_per_year)) * face_value * coupon_rate / payments_per_year, where
\* days_elapsed is the days from last_payment_date to the date of the call:
\* 0 when the dates are equal, days_elapsed times the interest of one day (up
\* to rounding), and above one coupon when days_elapsed is above
\* 360 / payments_per_year.
C8_AccruedIsLinear ==
    Completed(Accrued) =>
        LET days == today - args.last_payment_date
        IN  /\ ret = AccruedFormula(args, days)
            /\ days = 0 => ret = FZero
            /\ Close(ret, Mul(FInt(days), AccruedFormula(args, 1)))
            /\ (/\ FSign(args.coupon_rate) > 0
                /\ days * get_payments_per_year(args.frequency) > 360)
                   => FLt(Coupon(args), ret)

\* more days than a period holds: the interest is above one coupon
C8_Witness ==
    /\ Completed(Accrued)
    /\ args.frequency = "Monthly"
    /\ today - args.last_payment_date > 30
    /\ FSign(args.coupon_rate) > 0
    /\ FLt(Coupon(args), ret)

\* C9 as claimed: two calls of the same function with the same arguments
\* return the same result, whatever happened between them; the date the
\* accrued interest is counted to is an argument, not the clock.
C9_SameArgumentsSameResult ==
    (pc = "done" /\ "fn" \in DOMAIN prev /\ prev.fn = fn /\ prev.args = args)
        => ret = prev.ret

\* the functions that value a bond from its periods
Valuations ==
    {"bond_pricer", Yield, Duration, "calculate_convexity", "create_cashflow_diagram"}

\* C10 as claimed: when periods = floor(years_to_maturity * payments_per_year)
\* is less than 1, every valuation ends in the error InvalidPeriods and
\* returns no number.
C10_InvalidPeriodsRaised ==
    (/\ pc = "done"
     /\ fn \in Valuations
     /\ Periods(args.years_to_maturity, args.frequency) < 1)
        => ret = Raised("InvalidPeriods")

=============================================================================
